---- MODULE Spec2Model ----
(***************************************************************************)
(* WboitPass.render(): the per-frame driver of the weighted, blended       *)
(* order-independent transparency pass (src/src/WboitPass.js).             *)
(*                                                                         *)
(* render() is synchronous.  It is cut here into the steps between which   *)
(* the claims look at the scene (each scene render is a step of its own);  *)
(* the steps run in the order of the code and nothing else moves while a   *)
(* frame is in progress (every host action is guarded by pc = "idle").     *)
(*                                                                         *)
(* Beside the frames (Spec) there are the constructor's capability probe   *)
(* (SpecProbe), a frame followed on one pixel of the targets (SpecBlend)   *)
(* and frames in which a scene render throws (SpecFail).                   *)
(***************************************************************************)
EXTENDS Integers, Sequences, FiniteSets, TLC

\* ------------------------------------------------------------------ bounds

NumMaterials == 2
NumObjects == 2
MaxFrames == 2

Materials == 1..NumMaterials
Objects == 1..NumObjects

\* ------------------------------------------------- JavaScript values

\* A JavaScript value of the kinds the pass meets: undefined, a number, a
\* string, or a Color object (n holds its hex value).
JsUndefined == [t |-> "undefined", n |-> 0, s |-> ""]
JsNum(k) == [t |-> "number", n |-> k, s |-> ""]
JsStr(str) == [t |-> "string", n |-> 0, s |-> str]
JsColor(hex) == [t |-> "color", n |-> hex, s |-> ""]

\* JavaScript truthiness, as `if (v)` decides it.
Truthy(v) ==
    \/ v.t = "number" /\ v.n # 0
    \/ v.t = "string" /\ v.s # ""
    \/ v.t = "color"

\* Number.prototype.toFixed(1) on the stage numbers.
ToFixed1(k) ==
    CASE k = 0 -> "0.0"
      [] k = 1 -> "1.0"
      [] k = 2 -> "2.0"
      [] OTHER -> "NaN"

\* The number a shader uniform receives from a value (a numeric string is
\* coerced to its number when uploaded).
ToNumber(v) ==
    CASE v.t = "number" -> v.n
      [] v.t = "string" /\ v.s = "0.0" -> 0
      [] v.t = "string" /\ v.s = "1.0" -> 1
      [] v.t = "string" /\ v.s = "2.0" -> 2
      [] OTHER -> -1

\* ------------------------------------------------- imported constants

\* WboitStages (./materials/MeshWboitMaterial.js).
StageNormal == 0
StageAcummulation == 1
StageRevealage == 2

\* three.js blend constants, by name.
CustomBlending == "CustomBlending"
AddEquation == "AddEquation"
OneFactor == "OneFactor"
ZeroFactor == "ZeroFactor"
OneMinusSrcAlphaFactor == "OneMinusSrcAlphaFactor"

\* Module-level clear colors (hex values of Color(0,0,0) and Color(1,1,1)).
ClearColorZero == 0
ClearColorOne == 16777215

\* Render targets by name: "null" is the screen (no target bound).
NullTarget == "null"
BaseTarget == "baseTarget"
AccumulationTarget == "accumulationTarget"

\* ------------------------------------------------- maps (JavaScript Map)

EmptyMap == [k \in {} |-> FALSE]
MapSet(m, k, v) == [x \in (DOMAIN m) \cup {k} |-> IF x = k THEN v ELSE m[x]]
MapGet(m, k) == m[k]

\* ------------------------------------------------- input domains

\* Blend state a host material may carry: the three.js default, and a custom
\* state that differs from every stage configuration in all four fields.
DefaultBlend ==
    [blending |-> "NormalBlending", blendEquation |-> "AddEquation",
     blendSrc |-> "SrcAlphaFactor", blendDst |-> "OneMinusSrcAlphaFactor"]
HostBlend ==
    [blending |-> "AdditiveBlending", blendEquation |-> "SubtractEquation",
     blendSrc |-> "DstColorFactor", blendDst |-> "SrcColorFactor"]

MakeMaterial(tr, we, dt, dw, bl, rs, us) ==
    [transparent |-> tr, wboitEnabled |-> we,
     depthTest |-> dt, depthWrite |-> dw,
     blending |-> bl.blending, blendEquation |-> bl.blendEquation,
     blendSrc |-> bl.blendSrc, blendDst |-> bl.blendDst,
     renderStage |-> rs, uniformStage |-> us]

\* Materials whose depth flags are not the default pair TRUE, TRUE (default
\* blend state, no stage channel).
DepthMaterials ==
    { MakeMaterial(tw[1], tw[2], d[1], d[2], DefaultBlend, JsUndefined, JsUndefined) :
        tw \in {<<FALSE, FALSE>>, <<TRUE, FALSE>>, <<TRUE, TRUE>>},
        d \in {<<TRUE, FALSE>>, <<FALSE, TRUE>>, <<FALSE, FALSE>>} }

\* The ways a material exposes the active stage: not at all, as a typed
\* renderStage field (at Normal, or left at Accumulation), or as a
\* renderStage uniform.
StageChannels ==
    { <<JsUndefined, JsUndefined>>,
      <<JsNum(StageNormal), JsUndefined>>,
      <<JsNum(StageAcummulation), JsUndefined>>,
      <<JsUndefined, JsNum(StageNormal)>> }

\* Materials with a blend state of the host's (depth flags default): WBOIT
\* materials with each stage channel, and materials that are not WBOIT.
BlendMaterials ==
    { MakeMaterial(TRUE, TRUE, TRUE, TRUE, HostBlend, ch[1], ch[2]) : ch \in StageChannels }
        \cup { MakeMaterial(tw[1], tw[2], TRUE, TRUE, HostBlend, JsUndefined, JsUndefined) :
                  tw \in {<<TRUE, FALSE>>, <<FALSE, TRUE>>} }

MaterialDomain == DepthMaterials \cup BlendMaterials

\* An object of the scene graph: absent (not in the scene), or present with
\* a visible flag and a material list (hasMaterial = FALSE: no material; a
\* single material is the list of one).
AbsentObject == [present |-> FALSE, visible |-> TRUE, hasMaterial |-> FALSE, material |-> <<>>]
MakeObject(vis, ms) == [present |-> TRUE, visible |-> vis, hasMaterial |-> TRUE, material |-> ms]
BareObject == [present |-> TRUE, visible |-> TRUE, hasMaterial |-> FALSE, material |-> <<>>]

MaterialLists ==
    { <<m>> : m \in Materials } \cup { <<1, m>> : m \in Materials }

ObjectDomain ==
    {AbsentObject, BareObject, MakeObject(FALSE, <<1>>)}
        \cup { MakeObject(TRUE, ms) : ms \in MaterialLists }

\* Clear color and alpha of the host's renderer on entry.
HostClears == {<<ClearColorZero, 1>>, <<3368601, 0>>}
\* The constructor's clearColor and clearAlpha arguments (clearAlpha is 0
\* when not given): none, black as the number 0, a number, a Color object.
PassClears ==
    { [clearColor |-> JsUndefined, clearAlpha |-> 0],
      [clearColor |-> JsNum(0), clearAlpha |-> 1],
      [clearColor |-> JsNum(3368601), clearAlpha |-> 1],
      [clearColor |-> JsColor(0), clearAlpha |-> 0] }
HostTargets == {NullTarget, "hostTarget"}
WriteBuffers == {"writeBuffer"}

\* ------------------------------------------------- constructor: the capability probe

\* targetTypes and targetDivisor (lines 207, 214).
TargetTypes == <<"FloatType", "HalfFloatType", "UnsignedByteType">>
TargetDivisor == <<1, 15360, 255>>

\* testR, testG, testB, testA (lines 181-184).
TestColor == <<1, 1, 1, 0>>

\* epsilon is 1 / EpsilonInverse (line 238).
EpsilonInverse == 100

\* A reading of the Float32Array is a number of FloatUnit-ths; a reading of
\* the integer arrays is the integer.
FloatUnit == 1000
ReadingUnit(i) == IF i = 1 THEN FloatUnit ELSE 1

\* The reading that stands for 1.0 in candidate i's buffer.
FullScale(i) == ReadingUnit(i) * TargetDivisor[i]

\* fuzzyEqual(a, b) (lines 238-240) for a = num / den and an integer b:
\* a < b + epsilon && a > b - epsilon.
fuzzyEqual(num, den, b) ==
    /\ num * EpsilonInverse < (b * EpsilonInverse + 1) * den
    /\ num * EpsilonInverse > (b * EpsilonInverse - 1) * den

\* What a graphics context answers for candidate i: the framebuffer status
\* and the four readings of the pixel. The readings: the test color exactly,
\* with alpha at full scale, nothing drawn, slightly off, and off by just
\* over a hundredth of the full scale in the red channel.
Pixels(i) ==
    LET F == FullScale(i)
    IN  { <<F, F, F, 0>>, <<F, F, F, F>>, <<0, 0, 0, 0>>,
          <<F - (F \div 200), F, F, F \div 200>>,
          <<F - (F \div 100) - 1, F, F, 0>> }

Readbacks(i) == { [complete |-> c, pixel |-> p] : c \in BOOLEAN, p \in Pixels(i) }

Devices == { <<a, b, c>> : a \in Readbacks(1), b \in Readbacks(2), c \in Readbacks(3) }

NewProbe(d) ==
    [device |-> d, i |-> 1, tested |-> <<>>, targetType |-> "undefined",
     baseType |-> "undefined", accumulationType |-> "undefined", pc |-> "probe"]

\* The loop body that goes on after a candidate was accepted.
ProbeIterationNoBreak(P) ==
    LET i == P.i
        rd == P.device[i]
        den == FullScale(i)
        complete == \/ /\ rd.complete
                       /\ \A k \in 1..4 : fuzzyEqual(rd.pixel[k], den, TestColor[k])
                    \/ i = Len(TargetTypes)
        P1 == [P EXCEPT !.tested = Append(@, i), !.i = i + 1,
                        !.pc = IF i = Len(TargetTypes) THEN "targets" ELSE "probe"]
    IN  IF complete THEN [P1 EXCEPT !.targetType = TargetTypes[i]] ELSE P1

\* One iteration of the probe loop (lines 217-255): candidate i is rendered
\* and read back; it is accepted when complete, and the loop ends.
ProbeIteration(P) ==
    LET i == P.i
        rd == P.device[i]
        den == FullScale(i)
        complete == \/ /\ rd.complete
                       /\ \A k \in 1..4 : fuzzyEqual(rd.pixel[k], den, TestColor[k])
                    \/ i = Len(TargetTypes)
    IN  IF complete
        THEN [P EXCEPT !.tested = Append(@, i), !.targetType = TargetTypes[i],
                       !.pc = "targets"]
        ELSE [P EXCEPT !.tested = Append(@, i), !.i = i + 1,
                       !.pc = IF i = Len(TargetTypes) THEN "targets" ELSE "probe"]

\* The two persistent targets are allocated with the selected type (lines
\* 263-283).
CreateTargets(P) ==
    [P EXCEPT !.baseType = P.targetType, !.accumulationType = P.targetType,
              !.pc = "constructed"]

\* The probe of a pass constructed on a context that passes every candidate.
ProbeConstructed ==
    CreateTargets(ProbeIteration(NewProbe(
        [i \in DOMAIN TargetTypes |-> [complete |-> TRUE,
                         pixel |-> <<FullScale(i), FullScale(i), FullScale(i), 0>>]])))

\* ------------------------------------------------- one pixel of the targets

\* Blend factors the sub-passes use besides those above (line 178).
SrcAlphaFactor == "SrcAlphaFactor"

\* Colors and alphas are exact: num / AlphaScale^e, with e as small as can be.
AlphaScale == 4
NumFragments == 3
Fragments == 1..NumFragments

RECURSIVE Pow(_, _)
Pow(b, k) == IF k = 0 THEN 1 ELSE b * Pow(b, k - 1)

RECURSIVE VNorm(_)
VNorm(x) ==
    IF x.e > 0 /\ x.num % AlphaScale = 0
    THEN VNorm([num |-> x.num \div AlphaScale, e |-> x.e - 1])
    ELSE x

VZero == [num |-> 0, e |-> 0]
VOne == [num |-> 1, e |-> 0]
VAdd(x, y) ==
    LET e == IF x.e > y.e THEN x.e ELSE y.e
    IN  VNorm([num |-> x.num * Pow(AlphaScale, e - x.e) + y.num * Pow(AlphaScale, e - y.e),
               e |-> e])
VMul(x, y) == VNorm([num |-> x.num * y.num, e |-> x.e + y.e])
VOneMinus(x) == VNorm([num |-> Pow(AlphaScale, x.e) - x.num, e |-> x.e])

PixelZero == [c |-> VZero, a |-> VZero]

\* The value of a blend factor for a source and a destination pixel, one
\* value for the color and the alpha channel.
FactorValue(f, src, dst) ==
    CASE f = OneFactor -> VOne
      [] f = ZeroFactor -> VZero
      [] f = SrcAlphaFactor -> src.a
      [] f = OneMinusSrcAlphaFactor -> VOneMinus(src.a)
      [] f = "DstColorFactor" -> dst.c
      [] f = "SrcColorFactor" -> src.c

\* AddEquation: src * srcFactor + dst * dstFactor on each channel.
BlendAdd(src, dst, srcFactor, dstFactor) ==
    LET fs == FactorValue(srcFactor, src, dst)
        fd == FactorValue(dstFactor, src, dst)
    IN  [c |-> VAdd(VMul(src.c, fs), VMul(dst.c, fd)),
         a |-> VAdd(VMul(src.a, fs), VMul(dst.a, fd))]

\* The factors in effect for a material: its own under CustomBlending, those
\* of normal blending otherwise.
FactorsOf(mt) ==
    IF mt.blending = CustomBlending
    THEN <<mt.blendSrc, mt.blendDst>>
    ELSE <<SrcAlphaFactor, OneMinusSrcAlphaFactor>>

\* renderer.clearColor() on the base target: the pixel takes the clear color
\* (its red channel, which is 0 or 255 for the two colors of the pass) and
\* the clear alpha.
ClearPixel(r) ==
    [c |-> IF 2 * (r.clearColor \div 65536) > 255 THEN VOne ELSE VZero,
     a |-> [num |-> r.clearAlpha, e |-> 0]]

GpuClearBase(g, r) == IF g.observed THEN [g EXCEPT !.base = ClearPixel(r)] ELSE g

\* renderer.render(scene, camera) into base: the fragments of the visible
\* objects are blended in submission order, each with the blend state of its
\* object's material.
RECURSIVE DrawFragments(_, _, _, _, _)
DrawFragments(order, frags, px, M, O) ==
    IF order = <<>> THEN px
    ELSE LET f == frags[Head(order)]
             ob == O[f.object]
             fac == FactorsOf(M[ob.material[1]])
         IN  DrawFragments(Tail(order), frags,
                IF ob.present /\ ob.visible /\ ob.hasMaterial
                THEN BlendAdd([c |-> f.c, a |-> f.a], px, fac[1], fac[2])
                ELSE px,
                M, O)

GpuRender(g, M, O) ==
    IF g.observed THEN [g EXCEPT !.base = DrawFragments(g.order, g.frags, g.base, M, O)] ELSE g

\* copyPass (lines 165-171): base is written to the accumulation target
\* with ONE / ZERO.
GpuCopy(g) ==
    IF g.observed
    THEN [g EXCEPT !.accumulation = BlendAdd(g.base, g.accumulation, OneFactor, ZeroFactor)]
    ELSE g

\* compositePass (lines 173-178): the compositing shader's color is the
\* accumulated color over the accumulated alpha and its alpha the revealage;
\* it is blended into the output with ONE_MINUS_SRC_ALPHA / SRC_ALPHA. The
\* output color is kept as a fraction num / den; nothing accumulated leaves
\* the output as it is.
Composite(acc, rev, out) ==
    IF acc.a = VZero THEN out
    ELSE [num |-> VAdd(VMul(VMul(acc.c, out.den),
                            FactorValue(OneMinusSrcAlphaFactor, [c |-> acc.c, a |-> rev.c], out)),
                       VMul(VMul(out.num, acc.a),
                            FactorValue(SrcAlphaFactor, [c |-> acc.c, a |-> rev.c], out))),
          den |-> VMul(acc.a, out.den)]

GpuComposite(g) ==
    IF g.observed THEN [g EXCEPT !.output = Composite(g.accumulation, g.base, g.output)] ELSE g

\* render() is handed the write buffer: the pixel of the output holds what
\* the host has put there, the background.
GpuBeginFrame(g) == IF g.observed THEN [g EXCEPT !.output = g.background] ELSE g

\* No pixel is observed.
GpuIdle ==
    [observed |-> FALSE, frags |-> <<>>, order |-> <<>>, base |-> PixelZero,
     accumulation |-> PixelZero, background |-> [num |-> VZero, den |-> VOne],
     output |-> [num |-> VZero, den |-> VOne]]

\* Submission orders: the permutations of the fragments.
Orders ==
    { s \in [Fragments -> Fragments] : \A i, j \in Fragments : s[i] = s[j] => i = j }

\* ------------------------------------------------- the depth buffer of base

\* The visible objects a scene render draws with depth writes on: depth is
\* written where a material has depthTest and depthWrite set.
DepthWriting(M, O) ==
    { o \in Objects :
        /\ O[o].present /\ O[o].hasMaterial /\ O[o].visible
        /\ \E i \in DOMAIN O[o].material :
              M[O[o].material[i]].depthTest /\ M[O[o].material[i]].depthWrite }

\* ------------------------------------------------------------------ state

VARIABLES
    mat,            \* material id -> its fields
    obj,            \* object id -> present, visible, material list
    passScene,      \* this.scene: "null", "notScene" or "scene"
    sceneOverride,  \* scene.overrideMaterial
    passClear,      \* this.clearColor, this.clearAlpha
    renderer,       \* autoClear, clearColor, clearAlpha, target
    oldClearColor,  \* this._oldClearColor
    caches,         \* the seven snapshot maps
    groups,         \* opaqueMeshes, transparentMeshes, wboitMeshes
    locals,         \* oldAutoClear, oldClearAlpha, oldRenderTarget, oldOverrideMaterial, writeBuffer
    pc,             \* position inside render(), "idle" outside
    trace,          \* host calls issued by the current (or last) render()
    pre,            \* history: mat and obj before the first of the consecutive calls
    n,              \* history: render() calls past the guard since pre
    entry,          \* history: renderer and scene state when render() was called
    lastCall,       \* history: "none", "noop" (guard returned), "completed" or "threw"
    depthWriters,   \* history: objects drawn into base's depth since its last clear
    probe,          \* the constructor's capability probe
    gpu             \* one pixel of the targets while WBOIT fragments are blended

vars == <<mat, obj, passScene, sceneOverride, passClear, renderer, oldClearColor,
          caches, groups, locals, pc, trace, pre, n, entry, lastCall, depthWriters,
          probe, gpu>>

EmptyCaches ==
    [visibility |-> EmptyMap, blending |-> EmptyMap, blendEquation |-> EmptyMap,
     blendSrc |-> EmptyMap, blendDst |-> EmptyMap,
     depthTest |-> EmptyMap, depthWrite |-> EmptyMap]

EmptyGroups == [opaque |-> <<>>, transparent |-> <<>>, wboit |-> <<>>]

NoLocals ==
    [oldAutoClear |-> FALSE, oldClearAlpha |-> 0, oldRenderTarget |-> NullTarget,
     oldOverrideMaterial |-> "null", writeBuffer |-> NullTarget]

DefaultRenderer ==
    [autoClear |-> TRUE, clearColor |-> ClearColorZero, clearAlpha |-> 1, target |-> NullTarget]

EntryOf(r, ovr) ==
    [autoClear |-> r.autoClear, clearColor |-> r.clearColor, clearAlpha |-> r.clearAlpha,
     target |-> r.target, overrideMaterial |-> ovr]

\* Scenes in all their variety under a default renderer.
InitScene ==
    /\ mat \in [Materials -> MaterialDomain]
    /\ obj \in [Objects -> ObjectDomain]
    /\ passScene = "scene"
    /\ sceneOverride = "null"
    /\ passClear = [clearColor |-> JsUndefined, clearAlpha |-> 0]
    /\ renderer = DefaultRenderer

\* Renderer, scene reference and pass configuration in all their variety
\* over one scene: an opaque and a WBOIT object.
InitHost ==
    /\ mat = [m \in Materials |->
                 MakeMaterial(m # 1, m # 1, TRUE, TRUE, DefaultBlend, JsUndefined, JsUndefined)]
    /\ obj = [o \in Objects |-> IF o <= 2 THEN MakeObject(TRUE, <<o>>) ELSE AbsentObject]
    /\ passScene \in {"null", "notScene", "scene"}
    /\ sceneOverride \in {"null", "overrideMaterial"}
    /\ passClear \in PassClears
    /\ \E ac \in BOOLEAN, cc \in HostClears, t \in HostTargets :
          renderer = [autoClear |-> ac, clearColor |-> cc[1], clearAlpha |-> cc[2], target |-> t]

\* The pass after construction, outside render().
InitPass ==
    /\ oldClearColor = ClearColorZero
    /\ caches = EmptyCaches
    /\ groups = EmptyGroups
    /\ locals = NoLocals
    /\ pc = "idle"
    /\ trace = <<>>
    /\ pre = [mat |-> mat, obj |-> obj]
    /\ n = 0
    /\ entry = EntryOf(renderer, sceneOverride)
    /\ lastCall = "none"
    /\ depthWriters = {}

Init ==
    /\ InitScene \/ InitHost
    /\ InitPass
    /\ probe = ProbeConstructed
    /\ gpu = GpuIdle

\* ------------------------------------------------- gatherMeshes

\* ClassifyLoop with the transparent flag of the last material only.
RECURSIVE ClassifyLoopLastWins(_, _, _)
ClassifyLoopLastWins(ms, M, acc) ==
    IF ms = <<>> THEN acc
    ELSE LET m == Head(ms)
             isT == M[m].transparent
             isW == acc.isWboitCapable /\ isT /\ M[m].wboitEnabled
         IN  ClassifyLoopLastWins(Tail(ms), M,
                [isTransparent |-> isT, isWboitCapable |-> isW,
                 depthTest |-> MapSet(acc.depthTest, m, M[m].depthTest),
                 depthWrite |-> MapSet(acc.depthWrite, m, M[m].depthWrite)])

\* First loop over an object's materials (lines 331-338): the two flags and
\* the depth snapshots.  M is the material store as the loop finds it.
RECURSIVE ClassifyLoop(_, _, _)
ClassifyLoop(ms, M, acc) ==
    IF ms = <<>> THEN acc
    ELSE LET m == Head(ms)
             isT == acc.isTransparent /\ M[m].transparent
             isW == acc.isWboitCapable /\ isT /\ M[m].wboitEnabled
         IN  ClassifyLoop(Tail(ms), M,
                [isTransparent |-> isT, isWboitCapable |-> isW,
                 depthTest |-> MapSet(acc.depthTest, m, M[m].depthTest),
                 depthWrite |-> MapSet(acc.depthWrite, m, M[m].depthWrite)])

\* The depth loops of the opaque and transparent branches (lines 344-347,
\* 351-354).
RECURSIVE SetDepthLoop(_, _, _, _)
SetDepthLoop(ms, M, dt, dw) ==
    IF ms = <<>> THEN M
    ELSE SetDepthLoop(Tail(ms),
            [M EXCEPT ![Head(ms)].depthTest = dt, ![Head(ms)].depthWrite = dw], dt, dw)

\* The blend snapshot loop of the WBOIT branch (lines 359-364).
RECURSIVE SnapshotBlendLoop(_, _, _)
SnapshotBlendLoop(ms, M, C) ==
    IF ms = <<>> THEN C
    ELSE LET m == Head(ms)
         IN  SnapshotBlendLoop(Tail(ms), M,
                [C EXCEPT !.blending = MapSet(@, m, M[m].blending),
                          !.blendEquation = MapSet(@, m, M[m].blendEquation),
                          !.blendSrc = MapSet(@, m, M[m].blendSrc),
                          !.blendDst = MapSet(@, m, M[m].blendDst)])

\* GatherObject that leaves simple-transparent objects out of their group.
GatherObjectNoPush(G, o) ==
    IF ~G.obj[o].hasMaterial THEN G
    ELSE IF ~G.obj[o].visible THEN G
    ELSE
        LET ms == G.obj[o].material
            acc == ClassifyLoop(ms, G.mat,
                      [isTransparent |-> TRUE, isWboitCapable |-> TRUE,
                       depthTest |-> G.caches.depthTest,
                       depthWrite |-> G.caches.depthWrite])
            C1 == [G.caches EXCEPT !.depthTest = acc.depthTest,
                                   !.depthWrite = acc.depthWrite]
            G1 == IF ~acc.isWboitCapable
                  THEN IF ~acc.isTransparent
                       THEN [G EXCEPT !.groups.opaque = Append(@, o),
                                      !.mat = SetDepthLoop(ms, G.mat, TRUE, TRUE),
                                      !.caches = C1]
                       ELSE [G EXCEPT !.mat = SetDepthLoop(ms, G.mat, TRUE, FALSE),
                                      !.caches = C1]
                  ELSE [G EXCEPT !.groups.wboit = Append(@, o),
                                 !.caches = SnapshotBlendLoop(ms, G.mat, C1)]
        IN  [G1 EXCEPT !.caches.visibility = MapSet(@, o, G.obj[o].visible)]

\* GatherObject without the test of the visible flag.
GatherObjectNoVisibleTest(G, o) ==
    IF ~G.obj[o].hasMaterial THEN G
    ELSE
        LET ms == G.obj[o].material
            acc == ClassifyLoop(ms, G.mat,
                      [isTransparent |-> TRUE, isWboitCapable |-> TRUE,
                       depthTest |-> G.caches.depthTest,
                       depthWrite |-> G.caches.depthWrite])
            C1 == [G.caches EXCEPT !.depthTest = acc.depthTest,
                                   !.depthWrite = acc.depthWrite]
            G1 == IF ~acc.isWboitCapable
                  THEN IF ~acc.isTransparent
                       THEN [G EXCEPT !.groups.opaque = Append(@, o),
                                      !.mat = SetDepthLoop(ms, G.mat, TRUE, TRUE),
                                      !.caches = C1]
                       ELSE [G EXCEPT !.groups.transparent = Append(@, o),
                                      !.mat = SetDepthLoop(ms, G.mat, TRUE, FALSE),
                                      !.caches = C1]
                  ELSE [G EXCEPT !.groups.wboit = Append(@, o),
                                 !.caches = SnapshotBlendLoop(ms, G.mat, C1)]
        IN  [G1 EXCEPT !.caches.visibility = MapSet(@, o, G.obj[o].visible)]

\* The traverse callback on one object (lines 321-368).  G holds the material
\* store, the object store, the caches and the groups.
GatherObject(G, o) ==
    IF ~G.obj[o].hasMaterial THEN G
    ELSE IF ~G.obj[o].visible THEN G
    ELSE
        LET ms == G.obj[o].material
            acc == ClassifyLoop(ms, G.mat,
                      [isTransparent |-> TRUE, isWboitCapable |-> TRUE,
                       depthTest |-> G.caches.depthTest,
                       depthWrite |-> G.caches.depthWrite])
            C1 == [G.caches EXCEPT !.depthTest = acc.depthTest,
                                   !.depthWrite = acc.depthWrite]
            G1 == IF ~acc.isWboitCapable
                  THEN IF ~acc.isTransparent
                       THEN [G EXCEPT !.groups.opaque = Append(@, o),
                                      !.mat = SetDepthLoop(ms, G.mat, TRUE, TRUE),
                                      !.caches = C1]
                       ELSE [G EXCEPT !.groups.transparent = Append(@, o),
                                      !.mat = SetDepthLoop(ms, G.mat, TRUE, FALSE),
                                      !.caches = C1]
                  ELSE [G EXCEPT !.groups.wboit = Append(@, o),
                                 !.caches = SnapshotBlendLoop(ms, G.mat, C1)]
        IN  [G1 EXCEPT !.caches.visibility = MapSet(@, o, G.obj[o].visible)]

\* scene.traverse (line 321): the objects of the scene in graph order.
RECURSIVE Traverse(_, _)
Traverse(G, o) ==
    IF o > NumObjects THEN G
    ELSE Traverse(IF G.obj[o].present THEN GatherObject(G, o) ELSE G, o + 1)

gatherMeshes(M, O, C, Gr) ==
    Traverse([mat |-> M, obj |-> O, caches |-> C, groups |-> Gr], 1)

\* ------------------------------------------------- changeVisible

RECURSIVE SetVisibleAll(_, _, _)
SetVisibleAll(O, meshes, v) ==
    IF meshes = <<>> THEN O
    ELSE SetVisibleAll([O EXCEPT ![Head(meshes)].visible = v], Tail(meshes), v)

\* changeVisible that leaves the WBOIT objects as they are.
changeVisibleSkipWboit(O, Gr, opaqueVisible, transparentVisible, wboitVisible) ==
    SetVisibleAll(SetVisibleAll(O, Gr.opaque, opaqueVisible),
                  Gr.transparent, transparentVisible)

changeVisible(O, Gr, opaqueVisible, transparentVisible, wboitVisible) ==
    SetVisibleAll(
        SetVisibleAll(
            SetVisibleAll(O, Gr.opaque, opaqueVisible),
            Gr.transparent, transparentVisible),
        Gr.wboit, wboitVisible)

\* ------------------------------------------------- resetVisible

\* The material loop of resetVisible (lines 390-393).
RECURSIVE ResetDepthLoop(_, _, _)
ResetDepthLoop(ms, M, C) ==
    IF ms = <<>> THEN M
    ELSE LET m == Head(ms)
         IN  ResetDepthLoop(Tail(ms),
                [M EXCEPT ![m].depthWrite = MapGet(C.depthTest, m),
                          ![m].depthTest = MapGet(C.depthWrite, m)], C)

\* ResetEntry that does not write the visible flag back.
ResetEntryKeepHidden(S, C, key) ==
    [obj |-> S.obj,
     mat |-> IF S.obj[key].hasMaterial
             THEN ResetDepthLoop(S.obj[key].material, S.mat, C)
             ELSE S.mat]

\* One entry of the visibility cache (lines 383-394).  S holds the material
\* and object stores.
ResetEntry(S, C, key) ==
    [obj |-> [S.obj EXCEPT ![key].visible = MapGet(C.visibility, key)],
     mat |-> IF S.obj[key].hasMaterial
             THEN ResetDepthLoop(S.obj[key].material, S.mat, C)
             ELSE S.mat]

\* The cache is iterated in insertion order, which is the traversal order.
RECURSIVE ResetFrom(_, _, _)
ResetFrom(S, C, o) ==
    IF o > NumObjects THEN S
    ELSE ResetFrom(IF o \in DOMAIN C.visibility THEN ResetEntry(S, C, o) ELSE S, C, o + 1)

resetVisible(M, O, C) == ResetFrom([mat |-> M, obj |-> O], C, 1)

\* ------------------------------------------------- prepareWboitBlending

\* The stage channel of one material (lines 411-418).
SetStageChannel(mt, stage) ==
    IF Truthy(mt.renderStage)
    THEN [mt EXCEPT !.renderStage = JsNum(stage)]
    ELSE IF mt.uniformStage.t # "undefined"
         THEN [mt EXCEPT !.uniformStage = JsStr(ToFixed1(stage))]
         ELSE mt

\* SetStageBlend whose default case leaves the blend fields as they are.
SetStageBlendNoRestore(mt, m, stage, C) ==
    CASE stage = StageAcummulation ->
            [mt EXCEPT !.blending = CustomBlending, !.blendEquation = AddEquation,
                       !.blendSrc = OneFactor, !.blendDst = OneFactor,
                       !.depthWrite = FALSE, !.depthTest = TRUE]
      [] stage = StageRevealage ->
            [mt EXCEPT !.blending = CustomBlending, !.blendEquation = AddEquation,
                       !.blendSrc = ZeroFactor, !.blendDst = OneMinusSrcAlphaFactor,
                       !.depthWrite = FALSE, !.depthTest = TRUE]
      [] OTHER -> mt

\* SetStageBlend with the accumulation factors in the revealage case.
SetStageBlendSameFactors(mt, m, stage, C) ==
    CASE stage = StageAcummulation ->
            [mt EXCEPT !.blending = CustomBlending, !.blendEquation = AddEquation,
                       !.blendSrc = OneFactor, !.blendDst = OneFactor,
                       !.depthWrite = FALSE, !.depthTest = TRUE]
      [] stage = StageRevealage ->
            [mt EXCEPT !.blending = CustomBlending, !.blendEquation = AddEquation,
                       !.blendSrc = OneFactor, !.blendDst = OneFactor,
                       !.depthWrite = FALSE, !.depthTest = TRUE]
      [] OTHER ->
            [mt EXCEPT !.blending = MapGet(C.blending, m),
                       !.blendEquation = MapGet(C.blendEquation, m),
                       !.blendSrc = MapGet(C.blendSrc, m),
                       !.blendDst = MapGet(C.blendDst, m)]

\* SetStageBlend whose revealage case blends the source over the
\* destination (ONE / ONE_MINUS_SRC_ALPHA).
SetStageBlendOver(mt, m, stage, C) ==
    CASE stage = StageAcummulation ->
            [mt EXCEPT !.blending = CustomBlending, !.blendEquation = AddEquation,
                       !.blendSrc = OneFactor, !.blendDst = OneFactor,
                       !.depthWrite = FALSE, !.depthTest = TRUE]
      [] stage = StageRevealage ->
            [mt EXCEPT !.blending = CustomBlending, !.blendEquation = AddEquation,
                       !.blendSrc = OneFactor, !.blendDst = OneMinusSrcAlphaFactor,
                       !.depthWrite = FALSE, !.depthTest = TRUE]
      [] OTHER ->
            [mt EXCEPT !.blending = MapGet(C.blending, m),
                       !.blendEquation = MapGet(C.blendEquation, m),
                       !.blendSrc = MapGet(C.blendSrc, m),
                       !.blendDst = MapGet(C.blendDst, m)]

\* The switch on the stage (lines 420-446).
SetStageBlend(mt, m, stage, C) ==
    CASE stage = StageAcummulation ->
            [mt EXCEPT !.blending = CustomBlending, !.blendEquation = AddEquation,
                       !.blendSrc = OneFactor, !.blendDst = OneFactor,
                       !.depthWrite = FALSE, !.depthTest = TRUE]
      [] stage = StageRevealage ->
            [mt EXCEPT !.blending = CustomBlending, !.blendEquation = AddEquation,
                       !.blendSrc = ZeroFactor, !.blendDst = OneMinusSrcAlphaFactor,
                       !.depthWrite = FALSE, !.depthTest = TRUE]
      [] OTHER ->
            [mt EXCEPT !.blending = MapGet(C.blending, m),
                       !.blendEquation = MapGet(C.blendEquation, m),
                       !.blendSrc = MapGet(C.blendSrc, m),
                       !.blendDst = MapGet(C.blendDst, m)]

\* The material loop of one WBOIT mesh (lines 404-447).
RECURSIVE PrepareLoop(_, _, _, _)
PrepareLoop(ms, M, stage, C) ==
    IF ms = <<>> THEN M
    ELSE LET m == Head(ms)
         IN  IF M[m].wboitEnabled # TRUE \/ M[m].transparent # TRUE
             THEN PrepareLoop(Tail(ms), M, stage, C)
             ELSE PrepareLoop(Tail(ms),
                    [M EXCEPT ![m] = SetStageBlend(SetStageChannel(M[m], stage), m, stage, C)],
                    stage, C)

RECURSIVE PrepareMeshes(_, _, _, _, _)
PrepareMeshes(meshes, M, O, stage, C) ==
    IF meshes = <<>> THEN M
    ELSE PrepareMeshes(Tail(meshes),
            PrepareLoop(O[Head(meshes)].material, M, stage, C), O, stage, C)

prepareWboitBlending(stage, M, O, Gr, C) == PrepareMeshes(Gr.wboit, M, O, stage, C)

\* ------------------------------------------------- host renderer calls

\* H holds the renderer state and the trace of calls.
Call(op, H, detail) ==
    [op |-> op, target |-> H.renderer.target, color |-> H.renderer.clearColor,
     alpha |-> H.renderer.clearAlpha, detail |-> detail]

setRenderTarget(H, t) ==
    LET H1 == [H EXCEPT !.renderer.target = t]
    IN  [H1 EXCEPT !.trace = Append(@, Call("setRenderTarget", H1, ""))]

\* setClearColor that sets the color and leaves the clear alpha as it is.
setClearColorKeepAlpha(H, hex, a) ==
    LET H1 == [H EXCEPT !.renderer.clearColor = hex]
    IN  [H1 EXCEPT !.trace = Append(@, Call("setClearColor", H1, ""))]

setClearColor(H, hex, a) ==
    LET H1 == [H EXCEPT !.renderer.clearColor = hex, !.renderer.clearAlpha = a]
    IN  [H1 EXCEPT !.trace = Append(@, Call("setClearColor", H1, ""))]

clearColor(H) == [H EXCEPT !.trace = Append(@, Call("clear", H, "color"))]

clear(H) == [H EXCEPT !.trace = Append(@, Call("clear", H, "color+depth+stencil"))]

renderScene(H) == [H EXCEPT !.trace = Append(@, Call("render", H, "scene"))]

\* ShaderPass.render(renderer, writeBuffer, readBuffer): binds the write
\* buffer and draws the full-screen quad.
passRender(H, name, writeBuffer) ==
    LET H1 == [H EXCEPT !.renderer.target = writeBuffer]
        H2 == [H1 EXCEPT !.trace = Append(@, Call("setRenderTarget", H1, ""))]
    IN  [H2 EXCEPT !.trace = Append(@, Call("pass", H2, name))]

Host == [renderer |-> renderer, trace |-> trace]

\* restoreState that does not bind the old render target again.
restoreStateKeepTarget(H, L, oldColor) ==
    [setClearColor(H, oldColor, L.oldClearAlpha)
        EXCEPT !.renderer.autoClear = L.oldAutoClear]

\* The renderer part of "Restore Original State" (lines 523-526).
restoreState(H, L, oldColor) ==
    [setClearColor(setRenderTarget(H, L.oldRenderTarget), oldColor, L.oldClearAlpha)
        EXCEPT !.renderer.autoClear = L.oldAutoClear]

\* clearCaches that leaves the depth-test map as it is.
clearCachesKeepDepthTest(C) ==
    [visibility |-> EmptyMap, blending |-> EmptyMap, blendEquation |-> EmptyMap,
     blendSrc |-> EmptyMap, blendDst |-> EmptyMap,
     depthTest |-> C.depthTest, depthWrite |-> EmptyMap]

\* "Clear Caches" (lines 528-535): Map.clear() on each of the seven maps.
clearCaches(C) ==
    [visibility |-> EmptyMap, blending |-> EmptyMap, blendEquation |-> EmptyMap,
     blendSrc |-> EmptyMap, blendDst |-> EmptyMap,
     depthTest |-> EmptyMap, depthWrite |-> EmptyMap]

\* ------------------------------------------------- render(): the steps

\* A guard that lets every call through.
SceneGuardMissing == TRUE

\* The guard of render() (line 306): the scene is set and is a scene.
SceneGuard == passScene = "scene"

frameVars == <<mat, obj, sceneOverride, renderer, oldClearColor, caches, groups,
               locals, pc, trace>>

\* render() is called: the guard, then "Save Current State" (lines 301-306,
\* 451-458).
Render ==
    /\ pc = "idle"
    /\ n < MaxFrames
    /\ \E wb \in WriteBuffers :
        IF ~SceneGuard
        THEN /\ lastCall' = "noop"
             /\ UNCHANGED <<frameVars, passScene, passClear, pre, n, entry, depthWriters>>
        ELSE /\ locals' = [oldAutoClear |-> renderer.autoClear,
                           oldClearAlpha |-> renderer.clearAlpha,
                           oldRenderTarget |-> renderer.target,
                           oldOverrideMaterial |-> sceneOverride,
                           writeBuffer |-> wb]
             /\ renderer' = [renderer EXCEPT !.autoClear = FALSE]
             /\ oldClearColor' = renderer.clearColor
             /\ sceneOverride' = "null"
             /\ pc' = "gather"
             /\ trace' = <<>>
             /\ entry' = EntryOf(renderer, sceneOverride)
             /\ pre' = IF n = 0 THEN [mat |-> mat, obj |-> obj] ELSE pre
             /\ depthWriters' = {}
             /\ UNCHANGED <<mat, obj, passScene, passClear, caches, groups, n, lastCall>>
    /\ gpu' = IF SceneGuard THEN GpuBeginFrame(gpu) ELSE gpu
    /\ UNCHANGED probe

\* "Gather Opaque / Transparent Meshes" (line 461).
GatherMeshes ==
    /\ pc = "gather"
    /\ LET G == gatherMeshes(mat, obj, caches, groups)
       IN  /\ mat' = G.mat
           /\ caches' = G.caches
           /\ groups' = G.groups
    /\ pc' = "opaqueSetup"
    /\ UNCHANGED <<obj, passScene, sceneOverride, passClear, renderer, oldClearColor,
                   locals, trace, pre, n, entry, lastCall>>
    /\ UNCHANGED depthWriters
    /\ UNCHANGED <<probe, gpu>>

\* "Clear Write Buffer" and the opaque stage up to its scene render (lines
\* 463-474).
OpaqueSetup ==
    /\ pc = "opaqueSetup"
    /\ LET H0 == IF Truthy(passClear.clearColor)
                 THEN clearColor(setClearColor(setRenderTarget(Host, locals.writeBuffer),
                                    passClear.clearColor.n, passClear.clearAlpha))
                 ELSE Host
           H1 == clear(setClearColor(setRenderTarget(H0, BaseTarget), ClearColorZero, 0))
       IN  /\ renderer' = H1.renderer
           /\ trace' = H1.trace
    /\ obj' = changeVisible(obj, groups, TRUE, FALSE, FALSE)
    /\ pc' = "opaqueRender"
    /\ UNCHANGED <<mat, passScene, sceneOverride, passClear, oldClearColor, caches, groups,
                   locals, pre, n, entry, lastCall>>
    /\ depthWriters' = {}
    /\ gpu' = GpuClearBase(gpu, renderer')
    /\ UNCHANGED probe

\* The opaque scene render and its copy to the write buffer (lines 475-486).
OpaqueRender ==
    /\ pc = "opaqueRender"
    /\ LET H1 == passRender(renderScene(Host), "opaquePass", locals.writeBuffer)
       IN  /\ renderer' = H1.renderer
           /\ trace' = H1.trace
    /\ pc' = "transparentSetup"
    /\ UNCHANGED <<mat, obj, passScene, sceneOverride, passClear, oldClearColor, caches,
                   groups, locals, pre, n, entry, lastCall>>
    /\ depthWriters' = depthWriters \cup DepthWriting(mat, obj)
    /\ gpu' = GpuRender(gpu, mat, obj)
    /\ UNCHANGED probe

\* The simple-transparent stage up to its scene render (lines 489-491).
TransparentSetup ==
    /\ pc = "transparentSetup"
    /\ obj' = changeVisible(obj, groups, FALSE, TRUE, FALSE)
    /\ LET H1 == clearColor(setRenderTarget(Host, BaseTarget))
       IN  /\ renderer' = H1.renderer
           /\ trace' = H1.trace
    /\ pc' = "transparentRender"
    /\ UNCHANGED <<mat, passScene, sceneOverride, passClear, oldClearColor, caches, groups,
                   locals, pre, n, entry, lastCall>>
    /\ UNCHANGED depthWriters
    /\ gpu' = GpuClearBase(gpu, renderer')
    /\ UNCHANGED probe

\* The simple-transparent scene render and its copy (lines 492-495).
TransparentRender ==
    /\ pc = "transparentRender"
    /\ LET H1 == passRender(renderScene(Host), "transparentPass", locals.writeBuffer)
       IN  /\ renderer' = H1.renderer
           /\ trace' = H1.trace
    /\ pc' = "accumulationSetup"
    /\ UNCHANGED <<mat, obj, passScene, sceneOverride, passClear, oldClearColor, caches,
                   groups, locals, pre, n, entry, lastCall>>
    /\ depthWriters' = depthWriters \cup DepthWriting(mat, obj)
    /\ gpu' = GpuRender(gpu, mat, obj)
    /\ UNCHANGED probe

\* The accumulation stage up to its scene render (lines 498-501).
AccumulationSetup ==
    /\ pc = "accumulationSetup"
    /\ obj' = changeVisible(obj, groups, FALSE, FALSE, TRUE)
    /\ mat' = prepareWboitBlending(StageAcummulation, mat, obj', groups, caches)
    /\ LET H1 == clearColor(setRenderTarget(Host, BaseTarget))
       IN  /\ renderer' = H1.renderer
           /\ trace' = H1.trace
    /\ pc' = "accumulationRender"
    /\ UNCHANGED <<passScene, sceneOverride, passClear, oldClearColor, caches, groups,
                   locals, pre, n, entry, lastCall>>
    /\ UNCHANGED depthWriters
    /\ gpu' = GpuClearBase(gpu, renderer')
    /\ UNCHANGED probe

\* AccumulationRender without the copy of base into the accumulation target.
AccumulationRenderNoCopy ==
    /\ pc = "accumulationRender"
    /\ LET H1 == renderScene(Host)
       IN  /\ renderer' = H1.renderer
           /\ trace' = H1.trace
    /\ pc' = "revealageSetup"
    /\ UNCHANGED <<mat, obj, passScene, sceneOverride, passClear, oldClearColor, caches,
                   groups, locals, pre, n, entry, lastCall>>
    /\ depthWriters' = depthWriters \cup DepthWriting(mat, obj)
    /\ gpu' = GpuRender(gpu, mat, obj)
    /\ UNCHANGED probe

\* The accumulation scene render and the copy of base into the accumulation
\* target (lines 502-503).
AccumulationRender ==
    /\ pc = "accumulationRender"
    /\ LET H1 == passRender(renderScene(Host), "copyPass", AccumulationTarget)
       IN  /\ renderer' = H1.renderer
           /\ trace' = H1.trace
    /\ pc' = "revealageSetup"
    /\ UNCHANGED <<mat, obj, passScene, sceneOverride, passClear, oldClearColor, caches,
                   groups, locals, pre, n, entry, lastCall>>
    /\ depthWriters' = depthWriters \cup DepthWriting(mat, obj)
    /\ gpu' = GpuCopy(GpuRender(gpu, mat, obj))
    /\ UNCHANGED probe

\* The revealage stage up to its scene render (lines 506-509).
RevealageSetup ==
    /\ pc = "revealageSetup"
    /\ mat' = prepareWboitBlending(StageRevealage, mat, obj, groups, caches)
    /\ LET H1 == clearColor(setClearColor(setRenderTarget(Host, BaseTarget), ClearColorOne, 1))
       IN  /\ renderer' = H1.renderer
           /\ trace' = H1.trace
    /\ pc' = "revealageRender"
    /\ UNCHANGED <<obj, passScene, sceneOverride, passClear, oldClearColor, caches, groups,
                   locals, pre, n, entry, lastCall>>
    /\ UNCHANGED depthWriters
    /\ gpu' = GpuClearBase(gpu, renderer')
    /\ UNCHANGED probe

\* The revealage scene render and the composite into the write buffer (lines
\* 510-518).
RevealageRender ==
    /\ pc = "revealageRender"
    /\ LET H1 == passRender(setRenderTarget(renderScene(Host), locals.writeBuffer),
                            "compositePass", locals.writeBuffer)
       IN  /\ renderer' = H1.renderer
           /\ trace' = H1.trace
    /\ pc' = "restore"
    /\ UNCHANGED <<mat, obj, passScene, sceneOverride, passClear, oldClearColor, caches,
                   groups, locals, pre, n, entry, lastCall>>
    /\ depthWriters' = depthWriters \cup DepthWriting(mat, obj)
    /\ gpu' = GpuComposite(GpuRender(gpu, mat, obj))
    /\ UNCHANGED probe

\* "Restore Original State" and "Clear Caches" (lines 520-536); render()
\* returns and its locals are gone.
Restore ==
    /\ pc = "restore"
    /\ LET M1 == prepareWboitBlending(StageNormal, mat, obj, groups, caches)
           S == resetVisible(M1, obj, caches)
           H1 == restoreState(Host, locals, oldClearColor)
       IN  /\ mat' = S.mat
           /\ obj' = S.obj
           /\ renderer' = H1.renderer
           /\ trace' = H1.trace
    /\ sceneOverride' = locals.oldOverrideMaterial
    /\ caches' = clearCaches(caches)
    /\ groups' = EmptyGroups
    /\ locals' = NoLocals
    /\ pc' = "idle"
    /\ n' = n + 1
    /\ lastCall' = "completed"
    /\ UNCHANGED <<passScene, passClear, oldClearColor, pre, entry>>
    /\ UNCHANGED depthWriters
    /\ UNCHANGED <<probe, gpu>>

\* ------------------------------------------------- the host, between frames

\* The host adds, removes or replaces an object of the scene graph.
HostEditObject ==
    /\ pc = "idle"
    /\ \E o \in Objects, new \in ObjectDomain :
        /\ new # obj[o]
        /\ obj' = [obj EXCEPT ![o] = new]
    /\ pre' = [mat |-> mat, obj |-> obj']
    /\ n' = 0
    /\ trace' = <<>>
    /\ lastCall' = "none"
    /\ entry' = EntryOf(renderer, sceneOverride)
    /\ UNCHANGED <<mat, passScene, sceneOverride, passClear, renderer, oldClearColor,
                   caches, groups, locals, pc>>
    /\ depthWriters' = {}
    /\ UNCHANGED <<probe, gpu>>

Next ==
    \/ Render
    \/ GatherMeshes
    \/ OpaqueSetup
    \/ OpaqueRender
    \/ TransparentSetup
    \/ TransparentRender
    \/ AccumulationSetup
    \/ AccumulationRender
    \/ RevealageSetup
    \/ RevealageRender
    \/ Restore
    \/ HostEditObject

Spec == Init /\ [][Next]_vars

\* ------------------------------------------------- a frame on one pixel

\* One scene (that of InitHost) under a default renderer and the pass's
\* default configuration.
InitFixedScene ==
    /\ mat = [m \in Materials |->
                 MakeMaterial(m # 1, m # 1, TRUE, TRUE, DefaultBlend, JsUndefined, JsUndefined)]
    /\ obj = [o \in Objects |-> IF o <= 2 THEN MakeObject(TRUE, <<o>>) ELSE AbsentObject]
    /\ passScene = "scene"
    /\ sceneOverride = "null"
    /\ passClear = [clearColor |-> JsUndefined, clearAlpha |-> 0]
    /\ renderer = DefaultRenderer

\* What a fragment's shader emits (color and alpha, in AlphaScale-ths), and
\* what the output buffer holds at the pixel when the frame starts.
FragmentDomain ==
    { [object |-> 2, c |-> VNorm([num |-> c, e |-> 1]), a |-> VNorm([num |-> a, e |-> 1])] :
        c \in {1, 2}, a \in {1, 3} }
Backgrounds == { [num |-> VNorm([num |-> k, e |-> 1]), den |-> VOne] : k \in {0, 2} }

\* The fragments of the WBOIT object that cover the pixel, in every
\* submission order.
InitBlend ==
    /\ InitFixedScene
    /\ InitPass
    /\ probe = ProbeConstructed
    /\ \E fr \in [Fragments -> FragmentDomain], ord \in Orders, bg \in Backgrounds :
          gpu = [observed |-> TRUE, frags |-> fr, order |-> ord, base |-> PixelZero,
                 accumulation |-> PixelZero, background |-> bg, output |-> bg]

\* The steps of render(), without the host's edits between frames.
NextFrame ==
    \/ Render
    \/ GatherMeshes
    \/ OpaqueSetup
    \/ OpaqueRender
    \/ TransparentSetup
    \/ TransparentRender
    \/ AccumulationSetup
    \/ AccumulationRender
    \/ RevealageSetup
    \/ RevealageRender
    \/ Restore

SpecBlend == InitBlend /\ [][NextFrame]_vars

\* ------------------------------------------------- a host call that fails

\* renderer.render(scene, camera) throws (lines 475, 492, 502, 510): nothing
\* in render() catches it, so the call ends there and its locals are gone.
HostCallFails ==
    /\ pc \in {"opaqueRender", "transparentRender", "accumulationRender", "revealageRender"}
    /\ pc' = "idle"
    /\ groups' = EmptyGroups
    /\ locals' = NoLocals
    /\ n' = n + 1
    /\ lastCall' = "threw"
    /\ UNCHANGED <<mat, obj, passScene, sceneOverride, passClear, renderer, oldClearColor,
                   caches, trace, pre, entry, depthWriters, probe, gpu>>

InitFail ==
    /\ InitHost
    /\ InitPass
    /\ probe = ProbeConstructed
    /\ gpu = GpuIdle

NextFail ==
    \/ NextFrame
    \/ HostCallFails

SpecFail == InitFail /\ [][NextFail]_vars

\* ------------------------------------------------- the constructor

mainVars == <<mat, obj, passScene, sceneOverride, passClear, renderer, oldClearColor,
              caches, groups, locals, pc, trace, pre, n, entry, lastCall, depthWriters>>

\* One candidate of the probe loop is tested.
ProbeCandidate ==
    /\ probe.pc = "probe"
    /\ probe' = ProbeIteration(probe)
    /\ UNCHANGED <<mainVars, gpu>>

\* The probe is over: the persistent targets are allocated.
ProbeCreateTargets ==
    /\ probe.pc = "targets"
    /\ probe' = CreateTargets(probe)
    /\ UNCHANGED <<mainVars, gpu>>

InitProbe ==
    /\ InitFixedScene
    /\ InitPass
    /\ probe \in { NewProbe(d) : d \in Devices }
    /\ gpu = GpuIdle

NextProbe ==
    \/ ProbeCandidate
    \/ ProbeCreateTargets

SpecProbe == InitProbe /\ [][NextProbe]_vars

\* ------------------------------------------------- vocabulary of the claims

\* An object the classifier does not skip.
Classified(ob) == ob.present /\ ob.hasMaterial /\ ob.visible

MaterialsOf(ob) == { ob.material[i] : i \in DOMAIN ob.material }

\* The reference rule of classification, over the material store M.
RefGroup(ob, M) ==
    IF \A m \in MaterialsOf(ob) : M[m].transparent /\ M[m].wboitEnabled
    THEN "wboit"
    ELSE IF \A m \in MaterialsOf(ob) : M[m].transparent
         THEN "transparent"
         ELSE "opaque"

Occurrences(meshes, o) == Cardinality({ i \in DOMAIN meshes : meshes[i] = o })

\* How many times o appears in the three groups together.
Memberships(o) ==
    Occurrences(groups.opaque, o) + Occurrences(groups.transparent, o)
        + Occurrences(groups.wboit, o)

\* The group that holds o ("none" when no group does).
GroupOf(o) ==
    IF Occurrences(groups.wboit, o) > 0 THEN "wboit"
    ELSE IF Occurrences(groups.transparent, o) > 0 THEN "transparent"
    ELSE IF Occurrences(groups.opaque, o) > 0 THEN "opaque"
    ELSE "none"

\* The materials the stage configurator touches: wboitEnabled and
\* transparent, on an object of the WBOIT group.
WboitMaterials ==
    { m \in Materials :
        /\ mat[m].wboitEnabled /\ mat[m].transparent
        /\ \E i \in DOMAIN groups.wboit : m \in MaterialsOf(obj[groups.wboit[i]]) }

\* The materials of the WBOIT objects of the scene as it was before the
\* first call.
PreWboitMaterials ==
    { m \in Materials :
        \E o \in Objects :
            /\ Classified(pre.obj[o])
            /\ RefGroup(pre.obj[o], pre.mat) = "wboit"
            /\ m \in MaterialsOf(pre.obj[o]) }

ExposesStage(mt) == mt.renderStage.t # "undefined" \/ mt.uniformStage.t # "undefined"

\* The stage a material exposes to its shader: the typed field when there
\* is one, the uniform otherwise.
ExposedStage(mt) ==
    IF mt.renderStage.t # "undefined" THEN ToNumber(mt.renderStage)
    ELSE ToNumber(mt.uniformStage)

AfterCalls == pc = "idle" /\ n >= 1

\* ------------------------------------------------- C1

\* C1: after N >= 1 consecutive completed render() calls, every material of
\* every classified object has the depthTest and depthWrite it had before
\* the first call.
C1_DepthRestored ==
    AfterCalls =>
        \A o \in Objects :
            Classified(pre.obj[o]) =>
                \A m \in MaterialsOf(pre.obj[o]) :
                    /\ mat[m].depthTest = pre.mat[m].depthTest
                    /\ mat[m].depthWrite = pre.mat[m].depthWrite

\* ------------------------------------------------- C2

\* C2: after N >= 1 consecutive completed render() calls, every material has
\* the blending, blendEquation, blendSrc and blendDst it had before the first
\* call.
C2_BlendRestored ==
    AfterCalls =>
        \A m \in Materials :
            /\ mat[m].blending = pre.mat[m].blending
            /\ mat[m].blendEquation = pre.mat[m].blendEquation
            /\ mat[m].blendSrc = pre.mat[m].blendSrc
            /\ mat[m].blendDst = pre.mat[m].blendDst

\* Two calls completed over a scene in which two WBOIT objects share a
\* material that carries the host's own blend state.
C2_Witness ==
    /\ pc = "idle" /\ n >= 2
    /\ \E o1, o2 \in Objects, m \in Materials :
        /\ o1 # o2
        /\ Classified(pre.obj[o1]) /\ RefGroup(pre.obj[o1], pre.mat) = "wboit"
        /\ Classified(pre.obj[o2]) /\ RefGroup(pre.obj[o2], pre.mat) = "wboit"
        /\ m \in MaterialsOf(pre.obj[o1]) \cap MaterialsOf(pre.obj[o2])
        /\ pre.mat[m].blendSrc = HostBlend.blendSrc

\* ------------------------------------------------- C3

\* C3: after N >= 1 consecutive completed render() calls, every object's
\* visible flag is what it was before the first call.
C3_VisibilityRestored ==
    AfterCalls => \A o \in Objects : obj[o].visible = pre.obj[o].visible

\* Two calls completed over a scene with objects of two different groups,
\* each hidden in some stage.
C3_Witness ==
    /\ pc = "idle" /\ n >= 2
    /\ \E o1, o2 \in Objects :
        /\ Classified(pre.obj[o1]) /\ Classified(pre.obj[o2])
        /\ RefGroup(pre.obj[o1], pre.mat) = "opaque"
        /\ RefGroup(pre.obj[o2], pre.mat) = "wboit"
        /\ obj[o1].visible /\ obj[o2].visible

\* ------------------------------------------------- C4

\* C4: when render() returns after passing the guard, the renderer's
\* autoClear, clear color, clear alpha and render target, and the scene's
\* overrideMaterial, are what they were when render() was called.
C4_RendererRestored ==
    (pc = "idle" /\ lastCall = "completed") => EntryOf(renderer, sceneOverride) = entry

\* A call returned that was entered with every saved value different from
\* what the pass sets.
C4_Witness ==
    /\ pc = "idle" /\ lastCall = "completed"
    /\ entry.autoClear
    /\ entry.overrideMaterial # "null"
    /\ entry.target # NullTarget
    /\ entry.clearColor \notin {ClearColorZero, ClearColorOne}
    /\ entry.clearAlpha = 0

\* ------------------------------------------------- C5

\* C5: a render() call made while the scene is null or not a scene issues no
\* host call (no bind, no clear, no scene render) and changes no renderer
\* state, object, material or cache.
C5_NoOpOnInvalidScene ==
    [][(Render /\ passScene # "scene") =>
          UNCHANGED <<mat, obj, sceneOverride, renderer, oldClearColor, caches, groups,
                      locals, pc, trace>>]_vars

\* render() was called with a null scene and returned, no host call made.
C5_Witness == passScene = "null" /\ lastCall = "noop" /\ trace = <<>>

\* ------------------------------------------------- C6

\* C6 as stated: after classification every object of the scene that has a
\* material is in exactly one of the three groups.
C6_EveryMaterialObjectInOneGroup ==
    pc = "opaqueSetup" =>
        \A o \in Objects :
            (obj[o].present /\ obj[o].hasMaterial) => Memberships(o) = 1

\* C6 amended: after classification every visible object of the scene that
\* has a material is in exactly one of the three groups (once), and an object
\* the classifier skips is in none.
C6_EveryClassifiedObjectInOneGroup ==
    pc = "opaqueSetup" =>
        \A o \in Objects :
            Memberships(o) = IF Classified(obj[o]) THEN 1 ELSE 0

\* Classification has put objects in two different groups.
C6_Witness ==
    /\ pc = "opaqueSetup"
    /\ groups.transparent # <<>>
    /\ groups.wboit # <<>>

\* ------------------------------------------------- C7

\* C7: the group of every classified object is the one the reference rule
\* gives: WBOIT iff every material is transparent and wboitEnabled, otherwise
\* transparent iff every material is transparent, otherwise opaque.
C7_GroupMatchesRule ==
    pc = "opaqueSetup" =>
        \A o \in Objects :
            Classified(obj[o]) => GroupOf(o) = RefGroup(obj[o], mat)

\* An object whose first material is not transparent and whose second is
\* transparent and wboitEnabled has been classified, as opaque.
C7_Witness ==
    /\ pc = "opaqueSetup"
    /\ \E o \in Objects :
        /\ Classified(obj[o])
        /\ Len(obj[o].material) = 2
        /\ ~mat[obj[o].material[1]].transparent
        /\ mat[obj[o].material[2]].transparent
        /\ mat[obj[o].material[2]].wboitEnabled
        /\ GroupOf(o) = "opaque"

\* ------------------------------------------------- C8

C8_Accumulation ==
    pc = "accumulationRender" =>
        \A m \in WboitMaterials :
            /\ mat[m].blendSrc = OneFactor /\ mat[m].blendDst = OneFactor
            /\ mat[m].depthWrite = FALSE /\ mat[m].depthTest = TRUE

C8_Revealage ==
    pc = "revealageRender" =>
        \A m \in WboitMaterials :
            /\ mat[m].blendSrc = ZeroFactor /\ mat[m].blendDst = OneMinusSrcAlphaFactor
            /\ mat[m].depthWrite = FALSE /\ mat[m].depthTest = TRUE

C8_Normal ==
    pc = "restore" =>
        \A m \in WboitMaterials :
            /\ mat'[m].blending = caches.blending[m]
            /\ mat'[m].blendEquation = caches.blendEquation[m]
            /\ mat'[m].blendSrc = caches.blendSrc[m]
            /\ mat'[m].blendDst = caches.blendDst[m]

\* C8: every material with wboitEnabled and transparent on an object of the
\* WBOIT group has blendSrc/blendDst ONE/ONE, depthWrite false and depthTest
\* true after prepareWboitBlending(Accumulation); ZERO/ONE_MINUS_SRC_ALPHA,
\* depthWrite false and depthTest true after prepareWboitBlending(Revealage);
\* and the blend fields snapshotted at classification after
\* prepareWboitBlending(Normal).
C8_StageBlend ==
    /\ [](C8_Accumulation /\ C8_Revealage)
    /\ [][C8_Normal]_vars

\* A frame has gone through the three configurations of a WBOIT material
\* that carries the host's own blend state.
C8_Witness ==
    /\ pc = "idle" /\ lastCall = "completed"
    /\ \E m \in PreWboitMaterials : pre.mat[m].blendSrc = HostBlend.blendSrc

\* ------------------------------------------------- C9

\* C9: every WBOIT material that exposes the stage (as a renderStage field,
\* or else as a renderStage uniform) exposes Accumulation at the accumulation
\* scene render, Revealage at the revealage scene render, and Normal after
\* render() has returned.
C9_StageExposed ==
    /\ pc = "accumulationRender" =>
          \A m \in WboitMaterials :
              ExposesStage(mat[m]) => ExposedStage(mat[m]) = StageAcummulation
    /\ pc = "revealageRender" =>
          \A m \in WboitMaterials :
              ExposesStage(mat[m]) => ExposedStage(mat[m]) = StageRevealage
    /\ (pc = "idle" /\ lastCall = "completed") =>
          \A m \in PreWboitMaterials :
              ExposesStage(mat[m]) => ExposedStage(mat[m]) = StageNormal

\* ------------------------------------------------- C10

\* C10: whenever render() is not executing, the seven snapshot maps are
\* empty.
C10_NoStateBetweenFrames ==
    pc = "idle" =>
        /\ DOMAIN caches.visibility = {}
        /\ DOMAIN caches.blending = {}
        /\ DOMAIN caches.blendEquation = {}
        /\ DOMAIN caches.blendSrc = {}
        /\ DOMAIN caches.blendDst = {}
        /\ DOMAIN caches.depthTest = {}
        /\ DOMAIN caches.depthWrite = {}

\* A frame that filled all seven maps (a WBOIT object was classified) has
\* completed.
C10_Witness ==
    /\ pc = "idle" /\ lastCall = "completed" /\ n >= 2
    /\ PreWboitMaterials # {}

\* ------------------------------------------------- C11

Abs(x) == IF x < 0 THEN -x ELSE x

\* Candidate i passes: its framebuffer is complete and each channel read
\* back is within a hundredth of the test color (1, 1, 1, 0).
Passes(d, i) ==
    /\ d[i].complete
    /\ \A k \in 1..4 :
          Abs(d[i].pixel[k] - <<1, 1, 1, 0>>[k] * FullScale(i)) * 100 <= FullScale(i)

\* The first passing candidate, else the last one.
FirstPassing(d) ==
    IF \E i \in 1..3 : Passes(d, i)
    THEN CHOOSE i \in 1..3 : Passes(d, i) /\ \A j \in 1..(i - 1) : ~Passes(d, j)
    ELSE 3

TestedTypes == [k \in 1..Len(probe.tested) |-> TargetTypes[probe.tested[k]]]

\* C11: the probe tests float, half-float, 8-bit in this order; when it is
\* over the selected type is the first passing candidate, else 8-bit, and
\* the candidates tested are those up to the selected one and no later one.
C11_FirstPassingWins ==
    /\ TestedTypes =
          SubSeq(<<"FloatType", "HalfFloatType", "UnsignedByteType">>, 1, Len(probe.tested))
    /\ probe.pc # "probe" =>
          LET sel == FirstPassing(probe.device)
          IN  /\ probe.targetType = <<"FloatType", "HalfFloatType", "UnsignedByteType">>[sel]
              /\ Len(probe.tested) = sel

\* Float has a complete framebuffer but reads back a wrong pixel, half-float
\* passes and is selected, and 8-bit, which would pass too, is not tested.
C11_Witness ==
    /\ probe.pc = "constructed"
    /\ probe.device[1].complete /\ ~Passes(probe.device, 1)
    /\ Passes(probe.device, 2) /\ Passes(probe.device, 3)
    /\ probe.targetType = "HalfFloatType"
    /\ probe.tested = <<1, 2>>

\* ------------------------------------------------- C12

\* A clear color was given to the constructor.
ClearConfigured == passClear.clearColor.t # "undefined"

\* Positions of render() after the opaque stage's setup.
AfterSetup ==
    pc \in {"opaqueRender", "transparentSetup", "transparentRender", "accumulationSetup",
            "accumulationRender", "revealageSetup", "revealageRender", "restore"}

\* The calls of the trace that clear the output buffer.
OutputClears ==
    { k \in DOMAIN trace : trace[k].op = "clear" /\ trace[k].target = locals.writeBuffer }

\* C12: when a clear color is configured (black as the number 0 included),
\* render() has cleared the output buffer with that color and the configured
\* alpha before the first scene render; when none is configured, the pass
\* does not clear the output buffer.
C12_OutputCleared ==
    AfterSetup =>
        IF ClearConfigured
        THEN \E k \in OutputClears :
                /\ trace[k].color = passClear.clearColor.n
                /\ trace[k].alpha = passClear.clearAlpha
                /\ \A j \in 1..k : trace[j].op # "render"
        ELSE OutputClears = {}

\* ------------------------------------------------- C13

\* The material is in the Accumulation or the Revealage blend configuration.
InStageBlend(mt) ==
    /\ mt.blending = CustomBlending
    /\ mt.blendEquation = AddEquation
    /\ \/ mt.blendSrc = OneFactor /\ mt.blendDst = OneFactor
       \/ mt.blendSrc = ZeroFactor /\ mt.blendDst = OneMinusSrcAlphaFactor

\* C13: however a call of render() that passed the guard ends, also by a
\* failing host call, control leaves render() with no material in a stage
\* blend configuration, every object as visible as before the calls, and
\* the seven snapshot maps empty.
C13_RestoredOnEveryExit ==
    (pc = "idle" /\ lastCall \in {"completed", "threw"}) =>
        /\ \A m \in Materials : ~InStageBlend(mat[m])
        /\ \A o \in Objects : obj[o].visible = pre.obj[o].visible
        /\ caches = EmptyCaches

\* ------------------------------------------------- C14

\* The sums of the fragments' colors and alphas, and the product of their
\* transmittances 1 - alpha: values that do not depend on any order.
RECURSIVE SumColor(_)
SumColor(k) == IF k = 0 THEN VZero ELSE VAdd(SumColor(k - 1), gpu.frags[k].c)
RECURSIVE SumAlpha(_)
SumAlpha(k) == IF k = 0 THEN VZero ELSE VAdd(SumAlpha(k - 1), gpu.frags[k].a)
RECURSIVE Transmittance(_)
Transmittance(k) ==
    IF k = 0 THEN VOne ELSE VMul(Transmittance(k - 1), VOneMinus(gpu.frags[k].a))

RefAccumulation == [c |-> SumColor(NumFragments), a |-> SumAlpha(NumFragments)]
RefRevealage == [c |-> Transmittance(NumFragments), a |-> Transmittance(NumFragments)]

\* The output pixel of a frame over the background it found.
RefOutput == Composite(RefAccumulation, RefRevealage, gpu.background)

\* C14: whatever the order in which the fragments covering a pixel are
\* drawn, after the accumulation stage the accumulation buffer holds the sum
\* of the fragments, after the revealage stage base holds the product of
\* their transmittances, and the composited output is the one these two
\* values give.
C14_OrderIndependent ==
    gpu.observed =>
        /\ (pc \in {"revealageSetup", "revealageRender", "restore"} \/ (pc = "idle" /\ n >= 1)) =>
              gpu.accumulation = RefAccumulation
        /\ (pc = "restore" \/ (pc = "idle" /\ n >= 1)) =>
              /\ gpu.base = RefRevealage
              /\ gpu.output = RefOutput

\* Fragments of different colors and alphas were drawn last to first and
\* composited over a background that is not black.
C14_Witness ==
    /\ gpu.observed
    /\ pc = "restore"
    /\ gpu.order[1] = NumFragments /\ gpu.order[NumFragments] = 1
    /\ gpu.frags[1].a # gpu.frags[NumFragments].a
    /\ gpu.frags[1].c # gpu.frags[NumFragments].c
    /\ gpu.accumulation = RefAccumulation
    /\ gpu.background.num # VZero
    /\ gpu.output # gpu.background
    /\ gpu.output = RefOutput

\* ------------------------------------------------- C15

\* The materials classification touches: those of the classified objects.
TouchedMaterials == UNION { MaterialsOf(obj[o]) : o \in { x \in Objects : Classified(obj[x]) } }

\* C15: at the end of classification (of the first call after pre, when pre
\* holds the materials as they were at the call) the depthTest and the
\* depthWrite snapshot maps have one entry for each touched material and no
\* other, and the entry is the material's value at the call.
C15_DepthSnapshots ==
    (pc = "opaqueSetup" /\ n = 0) =>
        /\ DOMAIN caches.depthTest = TouchedMaterials
        /\ DOMAIN caches.depthWrite = TouchedMaterials
        /\ \A m \in TouchedMaterials :
              /\ MapGet(caches.depthTest, m) = pre.mat[m].depthTest
              /\ MapGet(caches.depthWrite, m) = pre.mat[m].depthWrite

\* ------------------------------------------------- C16

\* Every material of every object of the group has the depth flags dt, dw.
GroupDepth(group, dt, dw) ==
    \A o \in Objects :
        GroupOf(o) = group =>
            \A m \in MaterialsOf(obj[o]) :
                mat[m].depthTest = dt /\ mat[m].depthWrite = dw

\* C16: at each scene render the materials of the stage's group have the
\* stage's depth flags: test and write at the opaque render, test without
\* write at the simple-transparent, the accumulation and the revealage
\* render.
C16_StageDepthFlags ==
    /\ pc = "opaqueRender" => GroupDepth("opaque", TRUE, TRUE)
    /\ pc = "transparentRender" => GroupDepth("transparent", TRUE, FALSE)
    /\ pc \in {"accumulationRender", "revealageRender"} => GroupDepth("wboit", TRUE, FALSE)

\* ------------------------------------------------- C17

\* Among the objects classified into a group, the visible ones are exactly
\* those of the given group.
OnlyVisible(group) ==
    \A o \in Objects :
        GroupOf(o) # "none" => (obj[o].visible <=> GroupOf(o) = group)

\* C17: at each of the four scene renders exactly the objects of the
\* stage's group are visible among the classified objects.
C17_OnlyStageGroupVisible ==
    /\ pc = "opaqueRender" => OnlyVisible("opaque")
    /\ pc = "transparentRender" => OnlyVisible("transparent")
    /\ pc \in {"accumulationRender", "revealageRender"} => OnlyVisible("wboit")

\* The accumulation render of a scene with an object in the opaque and one
\* in the WBOIT group: the first is hidden, the second shown.
C17_Witness ==
    /\ pc = "accumulationRender"
    /\ \E a, b \in Objects :
          /\ GroupOf(a) = "opaque" /\ ~obj[a].visible
          /\ GroupOf(b) = "wboit" /\ obj[b].visible

\* ------------------------------------------------- C18

\* The target of a call by its role.
RoleOf(t) ==
    CASE t = BaseTarget -> "base"
      [] t = AccumulationTarget -> "accumulation"
      [] t \in WriteBuffers -> "output"
      [] OTHER -> "host"

\* The scene renders, the sub-pass renders and the clears of base among the
\* calls of the frame, in the order of the calls.
IsStageCall(c) == c.op \in {"render", "pass"} \/ (c.op = "clear" /\ c.target = BaseTarget)
StageCalls ==
    LET sel == SelectSeq(trace, IsStageCall)
    IN  [k \in DOMAIN sel |-> <<sel[k].op, sel[k].detail, RoleOf(sel[k].target)>>]

\* The stages in the order the claim gives them.
StageOrder ==
    << <<"clear", "color+depth+stencil", "base">>, <<"render", "scene", "base">>,
       <<"pass", "opaquePass", "output">>,
       <<"clear", "color", "base">>, <<"render", "scene", "base">>,
       <<"pass", "transparentPass", "output">>,
       <<"clear", "color", "base">>, <<"render", "scene", "base">>,
       <<"pass", "copyPass", "accumulation">>,
       <<"clear", "color", "base">>, <<"render", "scene", "base">>,
       <<"pass", "compositePass", "output">> >>

\* How many of the stage calls have been issued at each position of render().
StageCallsAt(p) ==
    CASE p = "gather" -> 0
      [] p = "opaqueSetup" -> 0
      [] p = "opaqueRender" -> 1
      [] p = "transparentSetup" -> 3
      [] p = "transparentRender" -> 4
      [] p = "accumulationSetup" -> 6
      [] p = "accumulationRender" -> 7
      [] p = "revealageSetup" -> 9
      [] p = "revealageRender" -> 10
      [] p = "restore" -> 12

\* C18: a frame that passed the guard issues its scene renders and sub-pass
\* renders in the one fixed order (opaque render, opaque copy, transparent
\* render, transparent copy, accumulation render, copy into the accumulation
\* target, clear of base, revealage render, composite), none skipped or
\* repeated, and the renderer is restored after the composite.
C18_FixedStageOrder ==
    /\ pc # "idle" => StageCalls = SubSeq(StageOrder, 1, StageCallsAt(pc))
    /\ (pc = "idle" /\ lastCall = "completed") =>
          /\ StageCalls = StageOrder
          /\ Len(trace) >= 2
          /\ trace[Len(trace) - 1].op = "setRenderTarget"
          /\ trace[Len(trace)].op = "setClearColor"

\* A frame over a scene with nothing to classify (three empty groups) has
\* completed.
C18_Witness ==
    /\ pc = "idle" /\ lastCall = "completed"
    /\ \A o \in Objects : ~Classified(pre.obj[o])
    /\ StageCalls = StageOrder

\* ------------------------------------------------- C19

\* The calls of the trace that clear base's depth, and the scene renders.
DepthClears ==
    { k \in DOMAIN trace :
        /\ trace[k].op = "clear" /\ trace[k].target = BaseTarget
        /\ trace[k].detail = "color+depth+stencil" }
SceneRenders == { k \in DOMAIN trace : trace[k].op = "render" }

\* Once the opaque stage is set up, base's depth has been cleared once, before
\* every scene render, and no sub-pass has drawn into base.
C19_ClearedOnce ==
    (AfterSetup \/ (pc = "idle" /\ lastCall = "completed")) =>
        /\ Cardinality(DepthClears) = 1
        /\ \A k \in DepthClears : \A r \in SceneRenders : k < r
        /\ \A k \in DOMAIN trace : trace[k].op = "pass" => trace[k].target # BaseTarget

\* C19: base's depth is cleared exactly once per frame, before the opaque
\* render, and no sub-pass writes base; at the simple-transparent, the
\* accumulation and the revealage render base's depth is the one the opaque
\* render wrote: nothing but objects of the opaque group has been drawn into
\* it since the clear.
C19_BaseDepthKept ==
    /\ C19_ClearedOnce
    /\ pc \in {"transparentRender", "accumulationRender", "revealageRender"} =>
          \A o \in depthWriters : GroupOf(o) = "opaque"

\* ------------------------------------------------- C20

\* The clears of base among the calls of the frame, in order.
IsBaseClear(c) == c.op = "clear" /\ c.target = BaseTarget
BaseClears == SelectSeq(trace, IsBaseClear)

\* The clears of base issued before the scene render at each position.
BaseClearsAt(p) ==
    CASE p = "opaqueRender" -> 1
      [] p = "transparentRender" -> 2
      [] p = "accumulationRender" -> 3
      [] p = "revealageRender" -> 4
      [] OTHER -> Len(BaseClears)

\* C20: base is cleared once before each scene render, with the clear color
\* (0,0,0) and alpha 0 in effect before the opaque, the simple-transparent
\* and the accumulation render, and (1,1,1) and alpha 1 before the revealage
\* render.
C20_BaseClearColors ==
    /\ Len(BaseClears) = BaseClearsAt(pc)
    /\ Len(BaseClears) <= 4
    /\ \A k \in DOMAIN BaseClears :
          IF k <= 3
          THEN BaseClears[k].color = 0 /\ BaseClears[k].alpha = 0
          ELSE BaseClears[k].color = 16777215 /\ BaseClears[k].alpha = 1

\* The revealage render of a second frame, with a renderer that came with a
\* clear color of its own and a pass configured with another.
C20_Witness ==
    /\ pc = "revealageRender" /\ n = 1
    /\ entry.clearColor = 3368601 /\ entry.clearAlpha = 0
    /\ passClear.clearColor = JsNum(3368601) /\ passClear.clearAlpha = 1
    /\ Len(BaseClears) = 4

\* ------------------------------------------------- C21

\* An object of the scene that classification skips: it has no material, or
\* its visible flag is false before the calls.
SkippedAtStart(o) ==
    /\ pre.obj[o].present
    /\ ~pre.obj[o].hasMaterial \/ ~pre.obj[o].visible

\* C21: at every point of the pass and after it, an object without a
\* material or invisible when the frame starts is in none of the three
\* groups, has no entry in the visibility snapshot, and has the visible flag
\* it had before the calls (an invisible one is never shown).
C21_SkippedUntouched ==
    \A o \in Objects :
        SkippedAtStart(o) =>
            /\ GroupOf(o) = "none"
            /\ o \notin DOMAIN caches.visibility
            /\ obj[o].visible = pre.obj[o].visible

\* The revealage render of a frame over an invisible object with a material
\* and a classified object that carries the same material; the invisible
\* object is still invisible.
C21_Witness ==
    /\ pc = "revealageRender"
    /\ \E a, b \in Objects :
          /\ SkippedAtStart(a) /\ pre.obj[a].hasMaterial /\ ~obj[a].visible
          /\ GroupOf(b) # "none"
          /\ MaterialsOf(obj[a]) \cap MaterialsOf(obj[b]) # {}

====
